---- MODULE Spec2Model ----
(***************************************************************************)
(* Event reconciliation core of CallEats: the Vapi webhook dispatcher,     *)
(* the delayed reconciliation scheduler, the reconciliation fetcher, the   *)
(* tenant resolver and the call-phone keyspace of the cache manager.       *)
(*                                                                         *)
(* Webhook handlers are synchronous functions called from the async        *)
(* endpoint, so one handler runs to completion before the next starts;     *)
(* each scheduled fetch runs on its own daemon thread and interleaves      *)
(* with the handlers and with the other threads.                           *)
(***************************************************************************)
EXTENDS Integers, Sequences, FiniteSets, TLC

(***************************************************************************)
(* Bounds of the model.                                                    *)
(***************************************************************************)
\* threads started over a run (each accepted schedule starts one)
MaxThreads == 2
\* the same, in the runs that log every webhook request
MaxLoggedThreads == 1
\* settings.cache_ttl_seconds, in clock ticks
CacheTtl == 2
\* search results held by the two stores together
MaxCacheEntries == 2

(***************************************************************************)
(* Values.                                                                 *)
(***************************************************************************)
CallIds == {"c1", "c2"}
\* Python None / missing key for a call id or a tenant id (both falsy)
NoId == ""
NoTenant == ""
\* Python None for a phone number; the empty string is falsy as well
NoPhone == <<>>

\* phone numbers are strings, modelled as sequences of characters
F1 == <<"+", "1", " ", "(", "9", ")", "-", "3">>
P1 == <<"+", "1", "9", "3">>
P2 == <<"+", "2", "7">>
U0 == <<"+", "4", "4">>

\* rows of the restaurant_phone_mappings relation (phone numbers are stored
\* stripped, see create_phone_mapping)
restaurant_phone_mappings ==
    { [phone_number |-> P1, restaurant_id |-> "r1"],
      [phone_number |-> P2, restaurant_id |-> "r2"] }

\* JSON values as they reach the handlers: every field carries its shape
MissingPhone == [shape |-> "missing", number |-> NoPhone]
StrPhone(p) == [shape |-> "str", number |-> p]
\* a non-empty dict; number = NoPhone when it has no "number" key
DictPhone(p) == [shape |-> "dict", number |-> p]

MissingStatus == [shape |-> "missing", s |-> ""]
NullStatus == [shape |-> "null", s |-> ""]
NonStrStatus == [shape |-> "nonstring", s |-> ""]
StrStatus(s) == [shape |-> "str", s |-> s]

CallObj(id, status, phone) ==
    [shape |-> "object", id |-> id, status |-> status, phoneNumber |-> phone]
NoCallObj(shape) ==
    [shape |-> shape, id |-> NoId, status |-> MissingStatus,
     phoneNumber |-> MissingPhone]

MessageObj(type, phone, call) ==
    [shape |-> "object", type |-> type, phoneNumber |-> phone, call |-> call]
NoMessageObj(shape) ==
    [shape |-> shape, type |-> "", phoneNumber |-> MissingPhone,
     call |-> NoCallObj("missing")]

JsonBody(message) == [shape |-> "object", message |-> message]
NoJsonBody(shape) == [shape |-> shape, message |-> NoMessageObj("missing")]

(***************************************************************************)
(* str.lower() on the status strings the model uses.                       *)
(***************************************************************************)
Lower(s) ==
    CASE s = "Ringing" -> "ringing"
      [] s = "ENDED" -> "ended"
      [] OTHER -> s

(***************************************************************************)
(* Responses of the endpoint.                                              *)
(***************************************************************************)
Resp(kind, success, message, restaurant_id, phone) ==
    [kind |-> kind, success |-> success, message |-> message,
     restaurant_id |-> restaurant_id, phoneNumber |-> phone]
\* {}
EmptyResp == Resp("empty", "", "", NoTenant, NoPhone)
\* {"metadata": {"restaurant_id": ..., "phoneNumber": ...}}
MetadataResp(restaurant_id, phone) ==
    Resp("metadata", "", "", restaurant_id, phone)
\* {"success": ..., "message": ...}
AckResp(success, message) == Resp("ack", success, message, NoTenant, NoPhone)
\* HTTPException(401) raised by verify_vapi_secret
Http401 == Resp("http401", "", "Invalid authentication", NoTenant, NoPhone)
\* an exception that leaves the endpoint function
Http500 == Resp("http500", "", "", NoTenant, NoPhone)

(***************************************************************************)
(* Tenant resolver.                                                        *)
(***************************************************************************)
StrippedChars == {" ", "(", ")", "-"}

KeptChar(ch) == ch \notin StrippedChars

\* phone_number.replace(" ", "").replace("(", "").replace(")", "").replace("-", "")
PhoneClean(phone_number) == SelectSeq(phone_number, KeptChar)

\* variant: a resolver that falls back to a default tenant
DefaultTenant(phone_number, db_ok) ==
    IF phone_number = NoPhone THEN NoTenant
    ELSE IF ~db_ok THEN NoTenant
    ELSE LET data == { r \in restaurant_phone_mappings :
                         r.phone_number = PhoneClean(phone_number) }
         IN  IF data # {} THEN (CHOOSE r \in data : TRUE).restaurant_id
             ELSE "r1"

\* db_ok = FALSE: the datastore query raises, which the function swallows
get_restaurant_id_from_phone(phone_number, db_ok) ==
    IF phone_number = NoPhone THEN NoTenant
    ELSE IF ~db_ok THEN NoTenant
    ELSE LET data == { r \in restaurant_phone_mappings :
                         r.phone_number = PhoneClean(phone_number) }
         IN  IF data # {} THEN (CHOOSE r \in data : TRUE).restaurant_id
             ELSE NoTenant

(***************************************************************************)
(* Webhook handlers, as functions from the message object to what the      *)
(* handler returns and which calls it makes on the shared state.           *)
(***************************************************************************)
\* truthiness of message.get("phoneNumber")
Truthy(phone_value) == phone_value.shape \in {"str", "dict"}

normalize_phone_number(phone_value) ==
    IF phone_value.shape = "missing" THEN NoPhone ELSE phone_value.number

\* raised: an AttributeError leaves the function
extract_phone_number(message_obj) ==
    IF Truthy(message_obj.phoneNumber)
    THEN [raised |-> FALSE,
          phone |-> normalize_phone_number(message_obj.phoneNumber)]
    ELSE IF message_obj.call.shape \in {"missing", "null"}
    THEN [raised |-> FALSE, phone |-> NoPhone]
    ELSE IF message_obj.call.shape = "nonobject"
    THEN [raised |-> TRUE, phone |-> NoPhone]
    ELSE IF Truthy(message_obj.call.phoneNumber)
    THEN [raised |-> FALSE,
          phone |-> normalize_phone_number(message_obj.call.phoneNumber)]
    ELSE [raised |-> FALSE, phone |-> NoPhone]

\* what a handler did: the exception or the response, the store_call_phone
\* call (store_id # NoId), the _schedule_fallback_fetch call (sched # NoId)
\* and the tenant lookup ("none" when it made none)
Handled(raised, resp, store_id, store_phone, sched, lookup) ==
    [raised |-> raised, resp |-> resp, store_id |-> store_id,
     store_phone |-> store_phone, sched |-> sched, lookup |-> lookup]
Returned(resp) == Handled(FALSE, resp, NoId, NoPhone, NoId, "none")
Raised == Handled(TRUE, Http500, NoId, NoPhone, NoId, "none")

handle_assistant_request(message_obj, db_ok) ==
    LET ex == extract_phone_number(message_obj)
        phone_number == ex.phone
    IN  IF ex.raised THEN Raised
        ELSE IF phone_number = NoPhone THEN Returned(EmptyResp)
        \* message_obj.get("call", {}).get("id") on a null or non-dict call
        ELSE IF message_obj.call.shape \in {"null", "nonobject"} THEN Raised
        ELSE LET call_id == message_obj.call.id
                 restaurant_id ==
                     get_restaurant_id_from_phone(phone_number, db_ok)
             IN  Handled(FALSE,
                         IF restaurant_id # NoTenant
                         THEN MetadataResp(restaurant_id, phone_number)
                         ELSE EmptyResp,
                         call_id, phone_number, NoId,
                         IF db_ok THEN "ok" ELSE "failed")

\* variant: the comparison without .lower()
IsExactlyRinging(status) == status.shape = "str" /\ status.s = "ringing"

\* call_obj.get("status", "").lower() == "ringing"
IsRinging(status) == status.shape = "str" /\ Lower(status.s) = "ringing"

handle_status_update(message_obj) ==
    LET call_obj == message_obj.call
    IN  IF call_obj.shape # "object"
        THEN Returned(AckResp("false", "Invalid status-update payload"))
        \* None.lower() or (3).lower()
        ELSE IF call_obj.status.shape \in {"null", "nonstring"} THEN Raised
        ELSE IF IsRinging(call_obj.status) /\ call_obj.id # NoId
        THEN Handled(FALSE, AckResp("true", "Scheduled API fetch"),
                     NoId, NoPhone, call_obj.id, "none")
        ELSE Returned(AckResp("true", "Ignored status update"))

\* variant: a handler that keeps the phone number the report carries
ReportUsedAsData(message_obj) ==
    LET call_obj == message_obj.call
    IN  IF call_obj.shape # "object"
        THEN Returned(AckResp("false", "Invalid webhook payload structure"))
        ELSE IF call_obj.id = NoId
        THEN Returned(AckResp("false", "Missing call ID"))
        ELSE Handled(FALSE, AckResp("true", "Scheduled API fetch"),
                     call_obj.id, extract_phone_number(message_obj),
                     call_obj.id, "none")

handle_end_of_call_report(message_obj) ==
    LET call_obj == message_obj.call
    IN  IF call_obj.shape # "object"
        THEN Returned(AckResp("false", "Invalid webhook payload structure"))
        ELSE IF call_obj.id = NoId
        THEN Returned(AckResp("false", "Missing call ID"))
        ELSE Handled(FALSE, AckResp("true", "Scheduled API fetch"),
                     NoId, NoPhone, call_obj.id, "none")

(***************************************************************************)
(* The unified endpoint.                                                   *)
(***************************************************************************)
\* variant: no check of the header
AnyHeader(hdr) == TRUE

\* verify_vapi_secret: header present and equal to the configured secret
SecretOk(hdr) == hdr = "secret"

\* variant: a chain whose last branch handles every other type as a report
RouteOthersAsReport(message_obj, db_ok) ==
    IF message_obj.type = "assistant-request"
    THEN handle_assistant_request(message_obj, db_ok)
    ELSE IF message_obj.type = "status-update"
    THEN handle_status_update(message_obj)
    ELSE handle_end_of_call_report(message_obj)

\* the if/elif chain on message.type
Route(message_obj, db_ok) ==
    IF message_obj.type = "assistant-request"
    THEN handle_assistant_request(message_obj, db_ok)
    ELSE IF message_obj.type = "status-update"
    THEN handle_status_update(message_obj)
    ELSE IF message_obj.type = "end-of-call-report"
    THEN handle_end_of_call_report(message_obj)
    ELSE Returned(EmptyResp)

\* the try block: request.json(), body.get("message", {}), the routing
TryBlock(body, db_ok) ==
    IF body.shape # "object" THEN Raised
    ELSE IF body.message.shape = "missing" THEN Returned(EmptyResp)
    ELSE IF body.message.shape \in {"null", "nonobject"} THEN Raised
    ELSE Route(body.message, db_ok)

\* variant: no except clause, the exception reaches the framework
Uncaught(handled) == handled

\* except Exception: log and return {}
ExceptClause(handled) ==
    IF handled.raised
    THEN [handled EXCEPT !.resp = EmptyResp]
    ELSE handled

\* what the endpoint answers and which calls it made; caught = the except
\* clause ran
vapi_unified_server(hdr, body, db_ok) ==
    IF ~SecretOk(hdr)
    THEN [Returned(Http401) EXCEPT !.raised = TRUE]
    ELSE ExceptClause(TryBlock(body, db_ok))

(***************************************************************************)
(* State.                                                                  *)
(***************************************************************************)
VARIABLES
    \* _scheduled_fetches: the call ids with a fetch pending
    scheduled_fetches,
    \* the fetch_after_delay threads started so far, in start order
    threads,
    \* rows of the call_history relation, in insertion order
    call_history,
    \* the call_phone:<call id> keys of the Redis store
    redis_call_phone,
    \* _fallback_call_phone_cache
    fallback_call_phone_cache,
    \* history: per call id, how often it entered the pending set
    epochs,
    \* history: the threads whose fetch returned None
    failed,
    \* history: the last webhook request and what the endpoint did with it
    last,
    \* history: what the last run of the fetcher past its gate read and did
    fetched,
    \* the cache:<tenant>:<category>:<query> keys of the Redis store
    redis_cache,
    \* _fallback_cache
    fallback_cache,
    \* history: the last cache manager call
    cache_last,
    \* history: the last call of extract_restaurant_id_with_fallback
    extracted,
    \* _cache of the in-memory-only cache module
    legacy_cache,
    \* the cache manager call that is being replayed on the other stores
    mirror,
    \* the menu, modifier, hours and zone data of the tenants, as the number
    \* of writes each has seen
    db,
    \* the search_knowledge_base call in progress
    search,
    \* the mutating operation in progress, or the last one
    crud

vars == <<scheduled_fetches, threads, call_history, redis_call_phone,
          fallback_call_phone_cache, epochs, failed, last, fetched,
          redis_cache, fallback_cache, cache_last, extracted, legacy_cache,
          mirror, db, search, crud>>

\* the search-result cache and its history
cache_vars == <<redis_cache, fallback_cache, cache_last>>

\* the state of the callers of the cache manager and of the tenant resolver
outer_vars == <<extracted, legacy_cache, mirror, db, search, crud>>

\* the state the webhook handlers and the fetch threads share
shared == <<scheduled_fetches, threads, call_history, redis_call_phone,
            fallback_call_phone_cache>>

NoLast ==
    [hdr |-> "", body |-> NoJsonBody("unread"), handled |-> Returned(EmptyResp),
     accepted |-> FALSE, changed |-> FALSE]

NoFetched ==
    [thread |-> 0, cached |-> NoPhone, rec_phone |-> MissingPhone,
     sec_phone |-> NoPhone, db_ok |-> TRUE, insert_ok |-> TRUE,
     ret |-> 0, rows |-> 0]

\* None, where a list of documents is expected
None == <<"None">>

NoCacheLast ==
    [op |-> "", restaurant_id |-> <<>>, query |-> <<>>, category |-> <<>>,
     results |-> None, redis_ok |-> TRUE, elapsed |-> 0]

All == <<"a", "l", "l">>
\* category = None
NoCategory == <<>>
Menu == <<"m", "e", "n", "u">>
Modifiers == <<"m", "o", "d", "i", "f", "i", "e", "r", "s">>
Hours == <<"h", "o", "u", "r", "s">>
Zones == <<"z", "o", "n", "e", "s">>
T1 == <<"r", "1">>
T2 == <<"r", "2">>

\* the data of the restaurants, by tenant and content category: each write
\* makes a new version
DataTenants == {T1, T2}
DataCategories == {Menu, Modifiers, Hours, Zones}

NoExtracted ==
    [x_restaurant_id |-> None,
     query_params |-> [shape |-> "none", restaurant_id |-> None],
     vapi_request |-> [shape |-> "none", metadata |-> "none",
                       restaurant_id |-> None],
     message_obj |-> NoMessageObj("null"), db_ok |-> TRUE,
     out |-> [raised |-> FALSE, source |-> "", value |-> None,
              tenant |-> NoTenant, lookups |-> 0]]

NoMirror == [op |-> "", restaurant_id |-> <<>>, query |-> <<>>,
             category |-> <<>>, results |-> None]

\* a search request: where it is, and the results it read or returned
NoSearch ==
    [pc |-> "idle", restaurant_id |-> <<>>, category |-> <<>>,
     results |-> None]

\* the last call of a handler that changes data
NoCrud ==
    [pc |-> "idle", handler |-> "", restaurant_id |-> <<>>, data |-> <<>>,
     outcome |-> "", wrote |-> FALSE, cleared |-> <<>>]

Init ==
    /\ scheduled_fetches = {}
    /\ threads = <<>>
    /\ call_history = <<>>
    /\ redis_call_phone = [c \in CallIds |-> NoPhone]
    /\ fallback_call_phone_cache = [c \in CallIds |-> NoPhone]
    /\ epochs = [c \in CallIds |-> 0]
    /\ failed = {}
    /\ last = NoLast
    /\ fetched = NoFetched
    /\ redis_cache = {}
    /\ fallback_cache = {}
    /\ cache_last = NoCacheLast
    /\ extracted = NoExtracted
    /\ legacy_cache = {}
    /\ mirror = NoMirror
    /\ db = [t \in DataTenants |-> [c \in DataCategories |-> 0]]
    /\ search = NoSearch
    /\ crud = NoCrud

(***************************************************************************)
(* Cache manager: the call id -> phone number keyspace.                    *)
(***************************************************************************)
\* redis_ok = FALSE: get_redis_client() returns None (no URL configured, or
\* the connection failed) or the Redis operation raises; either way the
\* in-memory cache serves this call
store_call_phone(call_id, phone_number, redis_ok) ==
    IF call_id = NoId \/ phone_number = NoPhone
    THEN UNCHANGED <<redis_call_phone, fallback_call_phone_cache>>
    ELSE IF redis_ok
    THEN /\ redis_call_phone' =
                [redis_call_phone EXCEPT ![call_id] = phone_number]
         /\ UNCHANGED fallback_call_phone_cache
    ELSE /\ fallback_call_phone_cache' =
                [fallback_call_phone_cache EXCEPT ![call_id] = phone_number]
         /\ UNCHANGED redis_call_phone

get_call_phone(call_id, redis_ok) ==
    IF call_id = NoId THEN NoPhone
    ELSE IF redis_ok THEN redis_call_phone[call_id]
    ELSE fallback_call_phone_cache[call_id]

\* the one-hour TTL of an association runs out
ExpireCallPhone ==
    /\ \E c \in CallIds :
         \/ /\ redis_call_phone[c] # NoPhone
            /\ redis_call_phone' = [redis_call_phone EXCEPT ![c] = NoPhone]
            /\ UNCHANGED fallback_call_phone_cache
         \/ /\ fallback_call_phone_cache[c] # NoPhone
            /\ fallback_call_phone_cache' =
                   [fallback_call_phone_cache EXCEPT ![c] = NoPhone]
            /\ UNCHANGED redis_call_phone
    /\ UNCHANGED <<scheduled_fetches, threads, call_history, epochs, failed,
                   last, fetched, cache_vars, outer_vars>>

(***************************************************************************)
(* Delayed reconciliation scheduler.                                       *)
(***************************************************************************)
\* a thread: the call id it was started for, where it is, how often it has
\* called the fetcher (history), whether a duplicate schedule call found it
\* pending (history), and the locals of its fetcher call: the status read,
\* the return value (a row number, 0 for None), why it returned and how
\* many phone and tenant resolutions it made
Thread(id, pc, fetches, dups, status, ret, outcome, resolutions) ==
    [id |-> id, pc |-> pc, fetches |-> fetches, dups |-> dups,
     status |-> status, ret |-> ret, outcome |-> outcome,
     resolutions |-> resolutions]

\* Thread creation is taken to succeed: the except branch that discards the
\* id when thread.start() raises is the exhaustion of an operating-system
\* resource, which this model does not describe.
\* threading.Thread(target=fetch_after_delay).start(): the thread sleeps
NewThread(vapi_call_id) ==
    Thread(vapi_call_id, "sleep", 0, FALSE, "", 0, "", 0)

\* variant: no membership test before the insert
NeverScheduled(vapi_call_id) == FALSE

\* if vapi_call_id in _scheduled_fetches (under the lock)
AlreadyScheduled(vapi_call_id) == vapi_call_id \in scheduled_fetches

\* history only: the running threads of the id have absorbed a duplicate
NoteDuplicate(vapi_call_id) ==
    [t \in 1..Len(threads) |->
        IF threads[t].id = vapi_call_id /\ threads[t].pc # "done"
        THEN [threads[t] EXCEPT !.dups = TRUE]
        ELSE threads[t]]

schedule_fallback_fetch(vapi_call_id) ==
    IF AlreadyScheduled(vapi_call_id)
    THEN /\ UNCHANGED scheduled_fetches
         /\ threads' = NoteDuplicate(vapi_call_id)
    ELSE /\ scheduled_fetches' = scheduled_fetches \cup {vapi_call_id}
         /\ threads' = Append(threads, NewThread(vapi_call_id))

\* variant: the id is discarded when the thread wakes, before the fetch
DiscardedBeforeFetch(vapi_call_id) == scheduled_fetches \ {vapi_call_id}

\* variant: a finally block that leaves the id in the pending set
NeverDiscarded(vapi_call_id) == scheduled_fetches

\* time.sleep(30) and the call of the fetcher leave the pending set alone
KeptWhileFetching(vapi_call_id) == scheduled_fetches

\* variant: the id is discarded after the call of the fetcher, outside any
\* finally block, so not when the call raises
DiscardedOnReturn(vapi_call_id) ==
    IF \E t \in 1..Len(threads) :
          /\ threads[t].id = vapi_call_id
          /\ threads[t].pc = "finally"
          /\ threads[t].outcome = "raises"
    THEN scheduled_fetches
    ELSE scheduled_fetches \ {vapi_call_id}

\* finally: _scheduled_fetches.discard(vapi_call_id) (under the lock)
Discarded(vapi_call_id) == scheduled_fetches \ {vapi_call_id}

(***************************************************************************)
(* Webhook requests.                                                       *)
(***************************************************************************)
NonObjectCalls ==
    {NoCallObj("missing"), NoCallObj("null"), NoCallObj("nonobject")}

\* assistant-request bodies that reach store_call_phone
StoringMessages ==
    { MessageObj("assistant-request", StrPhone(F1),
                 CallObj("c1", MissingStatus, MissingPhone)),
      MessageObj("assistant-request", MissingPhone,
                 CallObj("c1", MissingStatus, StrPhone(P2))) }

\* assistant-request bodies with a phone number and no call id
ResolvingMessages ==
    { MessageObj("assistant-request", p, NoCallObj("missing")) :
        p \in {StrPhone(F1), StrPhone(U0), DictPhone(P2)} }
    \cup
    { MessageObj("assistant-request", StrPhone(F1),
                 CallObj(NoId, MissingStatus, MissingPhone)) }

\* assistant-request bodies without a usable phone number or call object
BareMessages ==
    { MessageObj("assistant-request", DictPhone(NoPhone), NoCallObj("missing")),
      MessageObj("assistant-request", StrPhone(F1), NoCallObj("null")),
      MessageObj("assistant-request", StrPhone(F1), NoCallObj("nonobject")) }
    \cup
    { MessageObj("assistant-request", MissingPhone, c) :
        c \in NonObjectCalls \cup
              {CallObj("c1", MissingStatus, MissingPhone)} }

AssistantMessages == StoringMessages \cup ResolvingMessages \cup BareMessages

WebhookStatuses ==
    {MissingStatus, NullStatus, NonStrStatus} \cup
    {StrStatus(s) : s \in {"ringing", "Ringing", "in-progress", "ended"}}

StatusMessages ==
    { MessageObj("status-update", MissingPhone, c) :
        c \in NonObjectCalls \cup
              {CallObj("c1", st, MissingPhone) : st \in WebhookStatuses} \cup
              {CallObj(id, StrStatus(s), MissingPhone) :
                 id \in {"c2", NoId}, s \in {"ringing", "in-progress"}} }

EndOfCallMessages ==
    { MessageObj("end-of-call-report", MissingPhone, c) :
        c \in NonObjectCalls \cup
              {CallObj(id, StrStatus("ended"), MissingPhone) :
                 id \in CallIds \cup {NoId}} }
    \cup
    \* a report that carries a phone number of its own
    { MessageObj("end-of-call-report", StrPhone(F1),
                 CallObj("c1", StrStatus("ended"), StrPhone(P2))) }

\* a type the endpoint does not route, and a message without a type
OtherMessages ==
    { MessageObj(type, StrPhone(F1),
                 CallObj("c1", StrStatus("ringing"), MissingPhone)) :
        type \in {"transcript", ""} }

MalformedBodies ==
    {NoJsonBody("nonjson"), NoJsonBody("nonobject")}
    \cup {JsonBody(NoMessageObj(sh)) : sh \in {"missing", "null", "nonobject"}}

Request(hdr, body, db_ok, redis_ok) ==
    [hdr |-> hdr, body |-> body, db_ok |-> db_ok, redis_ok |-> redis_ok]

\* the requests the endpoint is given: the Redis store matters to the
\* requests that store an association, the datastore to those that resolve
\* a tenant, and the body of a request with a bad secret header is never read
Requests ==
    { Request("secret", JsonBody(m), db_ok, redis_ok) :
        m \in StoringMessages, db_ok \in BOOLEAN, redis_ok \in BOOLEAN }
    \cup
    { Request("secret", JsonBody(m), db_ok, TRUE) :
        m \in ResolvingMessages, db_ok \in BOOLEAN }
    \cup
    { Request("secret", JsonBody(m), TRUE, TRUE) :
        m \in BareMessages \cup StatusMessages \cup EndOfCallMessages
              \cup OtherMessages }
    \cup
    { Request("secret", b, TRUE, TRUE) : b \in MalformedBodies }
    \cup
    { Request(hdr,
              JsonBody(MessageObj("end-of-call-report", MissingPhone,
                   CallObj("c2", StrStatus("ended"), MissingPhone))),
              TRUE, TRUE) : hdr \in {"missing", "wrong"} }

\* variant: an endpoint that also stores the report, as store_call_from_webhook
\* would
ReportStoringServer(cap, req) ==
    LET h == vapi_unified_server(req.hdr, req.body, req.db_ok)
    IN  /\ (h.sched # NoId /\ ~AlreadyScheduled(h.sched))
               => Len(threads) < cap
        /\ store_call_phone(h.store_id, h.store_phone, req.redis_ok)
        /\ IF h.sched # NoId
           THEN schedule_fallback_fetch(h.sched)
           ELSE UNCHANGED <<scheduled_fetches, threads>>
        /\ epochs' = IF h.sched # NoId /\ h.sched \notin scheduled_fetches
                        /\ h.sched \in scheduled_fetches'
                     THEN [epochs EXCEPT ![h.sched] = @ + 1]
                     ELSE epochs
        /\ call_history' =
               IF h.sched # NoId /\ req.body.message.type = "end-of-call-report"
               THEN Append(call_history,
                           [restaurant_id |-> "r1", outcome |-> "ended",
                            vapi_call_id |-> h.sched, thread |-> 0,
                            phone |-> P1])
               ELSE call_history
        /\ UNCHANGED failed

\* POST /server: the calls the endpoint makes on the shared state; cap
\* bounds the threads of the run
VapiServer(cap, req) ==
    LET h == vapi_unified_server(req.hdr, req.body, req.db_ok)
    IN  /\ (h.sched # NoId /\ ~AlreadyScheduled(h.sched))
               => Len(threads) < cap
        /\ store_call_phone(h.store_id, h.store_phone, req.redis_ok)
        /\ IF h.sched # NoId
           THEN schedule_fallback_fetch(h.sched)
           ELSE UNCHANGED <<scheduled_fetches, threads>>
        /\ epochs' = IF h.sched # NoId /\ h.sched \notin scheduled_fetches
                        /\ h.sched \in scheduled_fetches'
                     THEN [epochs EXCEPT ![h.sched] = @ + 1]
                     ELSE epochs
        /\ UNCHANGED <<call_history, failed>>

\* history: the request, what the endpoint answered and what it changed
Log(req) ==
    [hdr |-> req.hdr,
     body |-> IF SecretOk(req.hdr) THEN req.body ELSE NoJsonBody("unread"),
     handled |-> vapi_unified_server(req.hdr, req.body, req.db_ok),
     accepted |-> Len(threads') > Len(threads),
     changed |-> shared' # shared]

(***************************************************************************)
(* Reconciliation fetcher, run by a fetch_after_delay thread.              *)
(***************************************************************************)
\* variant: a gate that lets a call in progress through
StatusesWithInProgress == {"ended", "completed", "failed", "in-progress"}

\* if status not in ["ended", "completed", "failed"]: return None
TerminalStatuses == {"ended", "completed", "failed"}

\* what client.get_call answers; "raises" is an exception that leaves the
\* fetcher instead of being turned into None by one of its except clauses
ApiAnswers == {"no_api_key", "api_error", "raises", "record"}
VendorStatuses ==
    {MissingStatus, NullStatus} \cup
    {StrStatus(s) : s \in {"in-progress", "ended", "ENDED"}}
\* call_data.get("phoneNumber")
VendorPhones == {MissingPhone, StrPhone(F1), DictPhone(P2), DictPhone(NoPhone)}
\* the number get_phone_number(phoneNumberId) yields; NoPhone when the record
\* has no phoneNumberId, the lookup raises or its answer has no number
SecondaryPhones == {NoPhone, P2, U0}

Row(restaurant_id, outcome, vapi_call_id, thread, phone) ==
    [restaurant_id |-> restaurant_id, outcome |-> outcome,
     \* history: the vendor call, the thread and the phone number the row
     \* comes from
     vapi_call_id |-> vapi_call_id, thread |-> thread, phone |-> phone]

\* variant: a failed fetch puts the thread back to sleep for another try
RetryAfterNone(t, status, outcome, resolutions) ==
    /\ threads' = [threads EXCEPT ![t] =
           Thread(@.id, "sleep", 0, @.dups, status, 0, outcome, resolutions)]
    /\ failed' = failed \cup {t}

\* fetch_and_store_call_from_vapi returns None
ReturnNone(t, status, outcome, resolutions) ==
    /\ threads' = [threads EXCEPT ![t] =
           Thread(@.id, "finally", IF @.pc = "sleep" THEN @.fetches + 1 ELSE @.fetches,
                  @.dups, status, 0, outcome, resolutions)]
    /\ failed' = failed \cup {t}

\* the thread wakes after the delay and calls the fetcher: the API key, the
\* vendor's answer and the terminal-status gate
FetchCall(t, api, status) ==
    /\ threads[t].pc = "sleep"
    /\ IF api # "record"
       THEN ReturnNone(t, "", api, 0)
       ELSE IF status.shape = "null"
       THEN ReturnNone(t, "", "raised", 0)
       ELSE IF Lower(status.s) \notin TerminalStatuses
       THEN ReturnNone(t, Lower(status.s), "not_ended", 0)
       ELSE /\ threads' = [threads EXCEPT ![t] =
                   Thread(@.id, "fetching", @.fetches + 1, @.dups,
                          Lower(status.s), 0, "", 0)]
            /\ UNCHANGED failed
    /\ scheduled_fetches' = KeptWhileFetching(threads[t].id)
    /\ UNCHANGED <<call_history, redis_call_phone, fallback_call_phone_cache,
                   epochs, last>>

\* variant: the fetched record is asked before the stored association
RecordBeforeCache(cached, rec_phone, sec_phone) ==
    IF Truthy(rec_phone) /\ normalize_phone_number(rec_phone) # NoPhone
    THEN normalize_phone_number(rec_phone)
    ELSE IF cached # NoPhone THEN cached
    ELSE sec_phone

\* the phone number of the call: cache, record, secondary lookup
ResolvePhone(cached, rec_phone, sec_phone) ==
    IF cached # NoPhone THEN cached
    ELSE IF Truthy(rec_phone) /\ normalize_phone_number(rec_phone) # NoPhone
    THEN normalize_phone_number(rec_phone)
    ELSE sec_phone

\* the rest of the fetcher: phone resolution, parse_vapi_call_data and
\* store_call_record (tenant lookup, create_call)
StoreCall(t, redis_ok, rec_phone, sec_phone, db_ok, insert_ok) ==
    /\ threads[t].pc = "fetching"
    /\ LET th == threads[t]
           phone_number ==
               ResolvePhone(get_call_phone(th.id, redis_ok), rec_phone,
                            sec_phone)
           restaurant_id == get_restaurant_id_from_phone(phone_number, db_ok)
       IN  IF phone_number = NoPhone
           THEN /\ ReturnNone(t, th.status, "no_phone", 1)
                /\ UNCHANGED call_history
           ELSE IF restaurant_id = NoTenant
           THEN /\ ReturnNone(t, th.status, "no_tenant", 2)
                /\ UNCHANGED call_history
           ELSE IF ~insert_ok
           THEN /\ ReturnNone(t, th.status, "store_error", 2)
                /\ UNCHANGED call_history
           ELSE /\ call_history' =
                       Append(call_history,
                              Row(restaurant_id, th.status, th.id, t,
                                  phone_number))
                /\ threads' = [threads EXCEPT ![t] =
                       Thread(@.id, "finally", @.fetches, @.dups, @.status,
                              Len(call_history) + 1, "stored", 2)]
                /\ UNCHANGED failed
    /\ UNCHANGED <<scheduled_fetches, redis_call_phone,
                   fallback_call_phone_cache, epochs, last>>

\* the finally block of fetch_after_delay; the thread ends
Finally(t) ==
    /\ threads[t].pc = "finally"
    /\ scheduled_fetches' = Discarded(threads[t].id)
    \* history: that the call of the fetcher raised is kept
    /\ threads' = [threads EXCEPT ![t] =
           Thread(@.id, "done", @.fetches, @.dups, "", 0,
                  IF @.outcome = "raises" THEN "raises" ELSE "", 0)]
    /\ UNCHANGED <<call_history, redis_call_phone, fallback_call_phone_cache,
                   epochs, failed, last>>

(***************************************************************************)
(* Specifications.                                                         *)
(***************************************************************************)
\* the requests after which the endpoint calls store_call_phone or
\* _schedule_fallback_fetch, and one of those after which it calls neither
CallingRequests ==
    { req \in Requests :
        LET h == vapi_unified_server(req.hdr, req.body, req.db_ok)
        IN  \/ h.sched # NoId
            \/ h.store_id # NoId
            \/ req.body = NoJsonBody("nonjson") }

Webhook ==
    /\ \E req \in CallingRequests :
          VapiServer(MaxThreads, req) /\ UNCHANGED last
    /\ UNCHANGED <<fetched, cache_vars, outer_vars>>

LoggedWebhook ==
    /\ \E req \in Requests :
          VapiServer(MaxLoggedThreads, req) /\ last' = Log(req)
    /\ UNCHANGED <<fetched, cache_vars, outer_vars>>

WakeOf(t) ==
    \E api \in ApiAnswers, status \in VendorStatuses : FetchCall(t, api, status)

\* the secondary lookup is made only when the record gives no number, and
\* the datastore is reached only with a number
StoreOf(t) ==
    \/ \E redis_ok \in BOOLEAN, rec_phone \in VendorPhones :
          StoreCall(t, redis_ok, rec_phone, NoPhone, TRUE, TRUE)
    \/ \E rec_phone \in {MissingPhone, DictPhone(NoPhone)},
          sec_phone \in SecondaryPhones \ {NoPhone} :
          StoreCall(t, TRUE, rec_phone, sec_phone, TRUE, TRUE)
    \/ \E db_ok \in BOOLEAN, insert_ok \in BOOLEAN :
          /\ ~(db_ok /\ insert_ok)
          /\ StoreCall(t, TRUE, StrPhone(F1), NoPhone, db_ok, insert_ok)

Wake ==
    /\ \E t \in 1..Len(threads) : WakeOf(t)
    /\ UNCHANGED <<fetched, cache_vars, outer_vars>>

Store ==
    /\ \E t \in 1..Len(threads) : StoreOf(t)
    /\ UNCHANGED <<fetched, cache_vars, outer_vars>>

End ==
    /\ \E t \in 1..Len(threads) : Finally(t)
    /\ UNCHANGED <<fetched, cache_vars, outer_vars>>

Next == Webhook \/ Wake \/ Store \/ End \/ ExpireCallPhone

Spec == Init /\ [][Next]_vars

\* every started thread runs: its sleep ends, its vendor and datastore calls
\* return (or time out) and its finally block executes
ThreadsRun ==
    \A t \in 1..MaxThreads :
        /\ WF_vars(/\ t <= Len(threads) /\ WakeOf(t)
                    /\ UNCHANGED <<fetched, cache_vars, outer_vars>>)
        /\ WF_vars(/\ t <= Len(threads) /\ StoreOf(t)
                    /\ UNCHANGED <<fetched, cache_vars, outer_vars>>)
        /\ WF_vars(/\ t <= Len(threads) /\ Finally(t)
                    /\ UNCHANGED <<fetched, cache_vars, outer_vars>>)

FairSpec == Spec /\ ThreadsRun

\* the same system, with the history of the last fetcher run kept
FetchWebhook ==
    /\ \E req \in CallingRequests :
          VapiServer(MaxLoggedThreads, req) /\ UNCHANGED last
    /\ UNCHANGED <<fetched, cache_vars, outer_vars>>

LogFetch(t, redis_ok, rec_phone, sec_phone, db_ok, insert_ok) ==
    [thread |-> t, cached |-> get_call_phone(threads[t].id, redis_ok),
     rec_phone |-> rec_phone, sec_phone |-> sec_phone, db_ok |-> db_ok,
     insert_ok |-> insert_ok, ret |-> threads'[t].ret,
     rows |-> Len(call_history') - Len(call_history)]

LoggedStore ==
    /\ \E t \in 1..Len(threads), redis_ok \in BOOLEAN,
          rec_phone \in VendorPhones, sec_phone \in SecondaryPhones,
          db_ok \in BOOLEAN, insert_ok \in BOOLEAN :
          /\ StoreCall(t, redis_ok, rec_phone, sec_phone, db_ok, insert_ok)
          /\ fetched' = LogFetch(t, redis_ok, rec_phone, sec_phone, db_ok,
                                 insert_ok)
    /\ UNCHANGED <<cache_vars, outer_vars>>

FetchNext == FetchWebhook \/ Wake \/ LoggedStore \/ End \/ ExpireCallPhone

FetchSpec == Init /\ [][FetchNext]_vars

\* the same system, with the history of the last webhook request kept
LoggedNext == LoggedWebhook \/ Wake \/ Store \/ End \/ ExpireCallPhone

DispatchSpec == Init /\ [][LoggedNext]_vars

(***************************************************************************)
(* Cache manager: search results.  Keys are strings, here sequences of     *)
(* characters.  Both stores are used below their capacity.                 *)
(***************************************************************************)
CachePrefix == <<"c", "a", "c", "h", "e", ":">>
CallPhonePrefix == <<"c", "a", "l", "l", "_", "p", "h", "o", "n", "e", ":">>
Colon == <<":">>
QHi == <<"H", "i">>
QLower == <<"h", "i">>
QPadded == <<" ", "h", "i", " ">>
QMenuColon == <<"m", "e", "n", "u", ":", "?">>
\* lists of documents
R1 == <<"doc1">>
EmptyResults == <<>>

\* variant: a key made from the trimmed, lower-cased query
NormalizedQuery(query) ==
    LET lowered == [i \in 1..Len(query) |->
                       IF query[i] = "H" THEN "h" ELSE query[i]]
    IN  SelectSeq(lowered, LAMBDA ch : ch # " ")

NormalizedCacheKey(restaurant_id, query, category) ==
    CachePrefix \o restaurant_id \o Colon
        \o (IF category = NoCategory THEN All ELSE category) \o Colon
        \o NormalizedQuery(query)

\* f"cache:{restaurant_id}:{category_str}:{query}"
get_cache_key(restaurant_id, query, category) ==
    CachePrefix \o restaurant_id \o Colon
        \o (IF category = NoCategory THEN All ELSE category) \o Colon
        \o query

\* f"call_phone:{call_id}"
CallPhoneKey(call_id) ==
    CallPhonePrefix \o (IF call_id = "c1" THEN <<"c", "1">> ELSE <<"c", "2">>)

\* json.dumps and json.loads of a list of documents
JsonDumps(results) == [json |-> results]
JsonLoads(text) == text.json

Entry(key, value, ttl) == [key |-> key, value |-> value, ttl |-> ttl]

Has(store, key) == \E e \in store : e.key = key

ValueAt(store, key) == (CHOOSE e \in store : e.key = key).value

\* setex / __setitem__: the entry of the key is replaced, its TTL starts
Put(store, key, value) ==
    {e \in store : e.key # key} \cup {Entry(key, value, CacheTtl)}

get_cached_result(restaurant_id, query, category, redis_ok) ==
    LET key == get_cache_key(restaurant_id, query, category)
    IN  IF redis_ok
        THEN IF Has(redis_cache, key)
             THEN JsonLoads(ValueAt(redis_cache, key))
             ELSE None
        ELSE IF Has(fallback_cache, key) THEN ValueAt(fallback_cache, key)
             ELSE None

set_cached_result(restaurant_id, query, results, category, redis_ok) ==
    LET key == get_cache_key(restaurant_id, query, category)
    IN  IF redis_ok
        THEN /\ redis_cache' = Put(redis_cache, key, JsonDumps(results))
             /\ UNCHANGED fallback_cache
        ELSE /\ fallback_cache' = Put(fallback_cache, key, results)
             /\ UNCHANGED redis_cache

\* str.startswith
StartsWith(str, prefix) ==
    Len(prefix) <= Len(str) /\ SubSeq(str, 1, Len(prefix)) = prefix

\* the in operator on strings
Contains(str, sub) ==
    \E i \in 1..(Len(str) - Len(sub) + 1) :
        SubSeq(str, i, i + Len(sub) - 1) = sub

\* the glob match of KEYS, for patterns of plain characters and *
RECURSIVE GlobMatch(_, _)
GlobMatch(pattern, str) ==
    IF pattern = <<>> THEN str = <<>>
    ELSE IF Head(pattern) = "*"
    THEN \/ GlobMatch(Tail(pattern), str)
         \/ str # <<>> /\ GlobMatch(pattern, Tail(str))
    ELSE /\ str # <<>>
         /\ Head(str) = Head(pattern)
         /\ GlobMatch(Tail(pattern), Tail(str))

\* variant: a pattern that matches every key of the store
EveryKey(restaurant_id, category) == <<"*">>

\* f"cache:{restaurant_id}:{category}:*" or f"cache:{restaurant_id}:*"
ClearPattern(restaurant_id, category) ==
    CachePrefix \o restaurant_id \o Colon
        \o (IF category # NoCategory THEN category \o Colon ELSE <<>>)
        \o <<"*">>

\* redis_client.keys(pattern) and delete(*keys), over all keys of the store
RedisDelete(pattern) ==
    /\ redis_cache' = {e \in redis_cache : ~GlobMatch(pattern, e.key)}
    /\ redis_call_phone' =
           [c \in CallIds |->
               IF redis_call_phone[c] # NoPhone
                  /\ GlobMatch(pattern, CallPhoneKey(c))
               THEN NoPhone
               ELSE redis_call_phone[c]]

\* _clear_fallback_cache
clear_fallback_cache(restaurant_id, category) ==
    LET keys_to_delete ==
            { e.key : e \in
                { e \in fallback_cache :
                    /\ StartsWith(e.key, CachePrefix \o restaurant_id \o Colon)
                    /\ \/ category = NoCategory
                       \/ Contains(e.key, Colon \o category \o Colon) } }
    IN  fallback_cache' = {e \in fallback_cache : e.key \notin keys_to_delete}

clear_cache(restaurant_id, category, redis_ok) ==
    IF redis_ok
    THEN /\ RedisDelete(ClearPattern(restaurant_id, category))
         /\ UNCHANGED <<fallback_cache, fallback_call_phone_cache>>
    ELSE /\ clear_fallback_cache(restaurant_id, category)
         /\ UNCHANGED <<redis_cache, redis_call_phone,
                        fallback_call_phone_cache>>

\* variant: entries that never expire
NeverAged(store) == store

\* the TTL of every entry runs: an entry whose TTL is over is gone
Aged(store) ==
    {Entry(e.key, e.value, e.ttl - 1) : e \in {e \in store : e.ttl > 1}}

(***************************************************************************)
(* Cache manager calls.                                                    *)
(***************************************************************************)
Tenants == {T1, T2}
Categories == {NoCategory, Menu, Hours}
CacheKeys ==
    { <<T1, QHi, Menu>>, <<T1, QLower, Menu>>, <<T1, QPadded, Menu>>,
      <<T1, QMenuColon, Hours>>, <<T1, QLower, NoCategory>>,
      <<T2, QLower, Menu>> }
Results == {R1, EmptyResults}

CacheCall(op, restaurant_id, query, category, results, redis_ok) ==
    [op |-> op, restaurant_id |-> restaurant_id, query |-> query,
     category |-> category, results |-> results, redis_ok |-> redis_ok,
     elapsed |-> 0]

scheduler_vars ==
    <<scheduled_fetches, threads, call_history, epochs, failed, last, fetched>>

SetCached ==
    \E k \in CacheKeys, results \in Results, redis_ok \in BOOLEAN :
        /\ \/ Has(IF redis_ok THEN redis_cache ELSE fallback_cache,
                  get_cache_key(k[1], k[2], k[3]))
           \/ Cardinality(redis_cache) + Cardinality(fallback_cache)
                  < MaxCacheEntries
        /\ set_cached_result(k[1], k[2], results, k[3], redis_ok)
        /\ cache_last' = CacheCall("set", k[1], k[2], k[3], results, redis_ok)
        /\ UNCHANGED <<redis_call_phone, fallback_call_phone_cache,
                       scheduler_vars, outer_vars>>

GetCached ==
    \E k \in CacheKeys, redis_ok \in BOOLEAN :
        /\ cache_last' =
               CacheCall("get", k[1], k[2], k[3],
                         get_cached_result(k[1], k[2], k[3], redis_ok),
                         redis_ok)
        /\ UNCHANGED <<redis_cache, fallback_cache, redis_call_phone,
                       fallback_call_phone_cache, scheduler_vars, outer_vars>>

ClearCache ==
    \E restaurant_id \in Tenants, category \in Categories,
       redis_ok \in BOOLEAN :
        /\ clear_cache(restaurant_id, category, redis_ok)
        /\ cache_last' = CacheCall("clear", restaurant_id, <<>>, category,
                                   None, redis_ok)
        /\ UNCHANGED <<scheduler_vars, outer_vars>>

\* the handler of an assistant-request stores an association
CallPhoneStored ==
    \E redis_ok \in BOOLEAN :
        /\ store_call_phone("c1", F1, redis_ok)
        /\ cache_last' = CacheCall("store_call_phone", <<>>, <<>>, <<>>,
                                   None, redis_ok)
        /\ UNCHANGED <<redis_cache, fallback_cache, scheduler_vars, outer_vars>>

\* a tick of the clock
Tick ==
    /\ redis_cache' = Aged(redis_cache)
    /\ fallback_cache' = Aged(fallback_cache)
    \* history: the ticks since a set are counted, up to the TTL
    /\ cache_last' =
           IF cache_last.op = "set"
           THEN [cache_last EXCEPT
                    !.elapsed = IF @ < CacheTtl THEN @ + 1 ELSE @]
           ELSE CacheCall("tick", <<>>, <<>>, <<>>, None, TRUE)
    /\ UNCHANGED <<redis_call_phone, fallback_call_phone_cache,
                   scheduler_vars, outer_vars>>

CacheNext == SetCached \/ GetCached \/ ClearCache \/ CallPhoneStored \/ Tick

CacheSpec == Init /\ [][CacheNext]_vars

(***************************************************************************)
(* Cache manager calls whose tenant id, category and query are the free    *)
(* strings of a request: ':' and the glob characters of KEYS included.     *)
(***************************************************************************)
TStar == <<"*">>
T1X == <<"r", "1", ":", "x">>
CatX == <<"x">>
MenuX == <<"m", "e", "n", "u", ":", "x">>
QXHi == <<"x", ":", "h", "i">>
QMenuHi == <<"m", "e", "n", "u", ":", "h", "i">>

RequestTenants == {T1, T2, T1X, TStar}
RequestCategories == {NoCategory, Menu}
RequestKeys ==
    { <<T1, QLower, MenuX>>, <<T1, QXHi, Menu>>, <<T1, QMenuHi, CatX>>,
      <<T1X, QLower, Menu>>, <<T2, QLower, Menu>>, <<TStar, QLower, Menu>> }

SetRequested ==
    \E k \in RequestKeys, redis_ok \in BOOLEAN :
        /\ \/ Has(IF redis_ok THEN redis_cache ELSE fallback_cache,
                  get_cache_key(k[1], k[2], k[3]))
           \/ Cardinality(redis_cache) + Cardinality(fallback_cache)
                  < MaxCacheEntries
        /\ set_cached_result(k[1], k[2], R1, k[3], redis_ok)
        /\ cache_last' = CacheCall("set", k[1], k[2], k[3], R1, redis_ok)
        /\ UNCHANGED <<redis_call_phone, fallback_call_phone_cache,
                       scheduler_vars, outer_vars>>

GetRequested ==
    \E k \in RequestKeys, redis_ok \in BOOLEAN :
        /\ cache_last' =
               CacheCall("get", k[1], k[2], k[3],
                         get_cached_result(k[1], k[2], k[3], redis_ok),
                         redis_ok)
        /\ UNCHANGED <<redis_cache, fallback_cache, redis_call_phone,
                       fallback_call_phone_cache, scheduler_vars, outer_vars>>

\* POST /cache/invalidate
ClearRequested ==
    \E restaurant_id \in RequestTenants, category \in RequestCategories,
       redis_ok \in BOOLEAN :
        /\ clear_cache(restaurant_id, category, redis_ok)
        /\ cache_last' = CacheCall("clear", restaurant_id, <<>>, category,
                                   None, redis_ok)
        /\ UNCHANGED <<scheduler_vars, outer_vars>>

RequestNext == SetRequested \/ GetRequested \/ ClearRequested \/ Tick

RequestSpec == Init /\ [][RequestNext]_vars

(***************************************************************************)
(* Searches and the handlers that change data.  Redis answers every call.  *)
(***************************************************************************)
Handler(name, kind, style, data, clears) ==
    [name |-> name, kind |-> kind, style |-> style, data |-> data,
     clears |-> clears]

\* style "manual": clear_cache is called in the body, after a write that
\* returned rows; "decorated": @invalidate_cache clears after any normal
\* return; "replace": decorated, a delete followed by an insert; "silent":
\* no call of clear_cache
Handlers ==
    { Handler("create_menu_item", "create", "manual", Menu, Menu),
      Handler("update_menu_item", "update", "decorated", Menu, Menu),
      Handler("delete_category", "delete", "manual", Menu, Menu),
      Handler("create_modifier", "create", "decorated", Modifiers, Modifiers),
      Handler("update_operating_hours", "update", "replace", Hours, Hours),
      Handler("delete_operating_hours", "delete", "decorated", Hours, Hours),
      Handler("update_delivery_zone", "update", "manual", Zones, Zones),
      Handler("upload_menu_item_image", "update", "silent", Menu, NoCategory),
      Handler("delete_menu_item_image", "update", "silent", Menu, NoCategory) }

\* what the datastore answers to the write: rows, no row, or an error; for
\* the replacement of the hours, an error of the insert after the delete
WriteOutcomes == {"rows", "no_rows", "raises", "insert_raises"}

\* the datastore has changed when the handler ends
Wrote(h, outcome) ==
    IF h.style = "replace" THEN outcome # "raises" ELSE outcome = "rows"

\* the handler returns, where it may also raise
ReturnsNormally(h, outcome) ==
    \/ outcome = "rows"
    \/ outcome = "no_rows" /\ h.kind # "create" /\ h.style # "replace"

\* clear_cache(restaurant_id, category) is called before the handler ends
Invalidates(h, outcome) ==
    CASE h.style = "manual" -> outcome = "rows"
      [] h.style \in {"decorated", "replace"} -> ReturnsNormally(h, outcome)
      [] OTHER -> FALSE

\* writes made in all
MaxWrites == 1

Written ==
    LET RECURSIVE Sum(_)
        Sum(cells) ==
            IF cells = {} THEN 0
            ELSE LET c == CHOOSE c \in cells : TRUE
                 IN  db[c[1]][c[2]] + Sum(cells \ {c})
    IN  Sum(DataTenants \X DataCategories)

\* the documents found for a tenant: of one category, or of all
search_documents(restaurant_id, category) ==
    IF category = NoCategory
    THEN <<All, db[restaurant_id]>>
    ELSE <<category, [c \in {category} |-> db[restaurant_id][c]]>>

\* results read from data that has changed since
Stale(restaurant_id, results) ==
    /\ results # None
    /\ \E c \in DOMAIN results[2] : results[2][c] # db[restaurant_id][c]

SearchCategories == DataCategories \cup {NoCategory}

data_bystander_vars ==
    <<scheduler_vars, cache_last, extracted, legacy_cache, mirror,
      fallback_cache, redis_call_phone, fallback_call_phone_cache>>

\* search_knowledge_base, up to the test of the cached results
SearchLookup ==
    \E restaurant_id \in DataTenants, category \in SearchCategories :
        LET cached == get_cached_result(restaurant_id, QLower, category, TRUE)
        IN  /\ search.pc = "idle"
            /\ \/ cached # None
               \/ Cardinality(redis_cache) < MaxCacheEntries
            /\ search' =
                   IF cached # None
                   THEN [pc |-> "idle", restaurant_id |-> restaurant_id,
                         category |-> category, results |-> cached]
                   ELSE [pc |-> "read", restaurant_id |-> restaurant_id,
                         category |-> category, results |-> None]
            /\ UNCHANGED <<redis_cache, db, crud, data_bystander_vars>>

\* the embedding of the query and the search_documents call
SearchRead ==
    /\ search.pc = "read"
    /\ search' =
           [search EXCEPT
               !.pc = "set",
               !.results =
                   search_documents(search.restaurant_id, search.category)]
    /\ UNCHANGED <<redis_cache, db, crud, data_bystander_vars>>

\* set_cached_result and return
SearchSet ==
    /\ search.pc = "set"
    /\ set_cached_result(search.restaurant_id, QLower, search.results,
                         search.category, TRUE)
    /\ search' = [search EXCEPT !.pc = "idle"]
    /\ UNCHANGED <<db, crud, redis_call_phone, fallback_call_phone_cache,
                   scheduler_vars, cache_last, extracted, legacy_cache,
                   mirror>>

\* a handler, up to the answer of the datastore
MutateWrite ==
    \E h \in Handlers, restaurant_id \in DataTenants,
       outcome \in WriteOutcomes :
        /\ crud.pc \in {"idle", "ended"}
        /\ outcome = "insert_raises" => h.style = "replace"
        /\ Written < MaxWrites
        /\ db' = IF Wrote(h, outcome)
                 THEN [db EXCEPT ![restaurant_id][h.data] = @ + 1]
                 ELSE db
        /\ crud' =
               [pc |-> "written", handler |-> h.name,
                restaurant_id |-> restaurant_id, data |-> h.data,
                outcome |-> outcome, wrote |-> Wrote(h, outcome),
                cleared |-> <<>>]
        /\ UNCHANGED <<redis_cache, search, data_bystander_vars>>

\* the rest of the handler: the call of clear_cache, where it is made, and
\* the return or the raise
MutateEnd ==
    \E h \in Handlers :
        /\ crud.pc = "written"
        /\ h.name = crud.handler
        /\ IF Invalidates(h, crud.outcome)
           THEN /\ clear_cache(crud.restaurant_id, h.clears, TRUE)
                /\ crud' =
                       [crud EXCEPT
                           !.pc = "ended",
                           !.cleared = <<crud.restaurant_id, h.clears>>]
           ELSE /\ crud' = [crud EXCEPT !.pc = "ended"]
                /\ UNCHANGED <<redis_cache, fallback_cache, redis_call_phone,
                               fallback_call_phone_cache>>
        /\ UNCHANGED <<db, search, scheduler_vars, cache_last, extracted,
                       legacy_cache, mirror>>

\* a tick of the clock
DataTick ==
    /\ redis_cache # {}
    /\ redis_cache' = Aged(redis_cache)
    /\ UNCHANGED <<db, search, crud, data_bystander_vars>>

DataNext == SearchLookup \/ SearchRead \/ SearchSet \/ MutateWrite
                \/ MutateEnd \/ DataTick

DataSpec == Init /\ [][DataNext]_vars

(***************************************************************************)
(* The in-memory-only cache module, and the same calls made on a healthy   *)
(* Redis, on a failing Redis and on the in-memory-only module.             *)
(***************************************************************************)
\* f"{restaurant_id}:{category_str}:{query}"
legacy_get_cache_key(restaurant_id, query, category) ==
    restaurant_id \o Colon
        \o (IF category = NoCategory THEN All ELSE category) \o Colon
        \o query

legacy_get_cached_result(restaurant_id, query, category) ==
    LET key == legacy_get_cache_key(restaurant_id, query, category)
    IN  IF Has(legacy_cache, key) THEN ValueAt(legacy_cache, key) ELSE None

legacy_set_cached_result(restaurant_id, query, results, category) ==
    legacy_cache' =
        Put(legacy_cache, legacy_get_cache_key(restaurant_id, query, category),
            results)

legacy_clear_cache(restaurant_id, category) ==
    LET keys_to_delete ==
            { e.key : e \in
                { e \in legacy_cache :
                    /\ StartsWith(e.key, restaurant_id \o Colon)
                    /\ \/ category = NoCategory
                       \/ Contains(e.key, Colon \o category \o Colon) } }
    IN  legacy_cache' = {e \in legacy_cache : e.key \notin keys_to_delete}

MirrorKeys ==
    { <<T1, QLower, Menu>>, <<T1, QMenuColon, Hours>>,
      <<T1, QLower, NoCategory>>, <<T2, QLower, Menu>> }

MirrorOp(op, restaurant_id, query, category, results) ==
    [op |-> op, restaurant_id |-> restaurant_id, query |-> query,
     category |-> category, results |-> results]

\* the rest of the state
bystander_vars ==
    <<scheduler_vars, cache_last, extracted, db, search, crud>>

\* the categories the handlers pass
HandlerCategories == Categories
\* the category of the invalidation endpoint is any string of the request
EndpointCategories == Categories \cup {T1}

\* a call of the cache manager, served by Redis; the call is kept for its
\* replay, a get with what it returned
MirrorCallWith(categories) ==
    /\ mirror = NoMirror
    /\ \/ \E k \in MirrorKeys, results \in Results :
             /\ set_cached_result(k[1], k[2], results, k[3], TRUE)
             /\ mirror' = MirrorOp("set", k[1], k[2], k[3], results)
             /\ UNCHANGED <<redis_call_phone, fallback_call_phone_cache>>
       \/ \E k \in MirrorKeys :
             /\ mirror' =
                    MirrorOp("get", k[1], k[2], k[3],
                             get_cached_result(k[1], k[2], k[3], TRUE))
             /\ UNCHANGED <<redis_cache, fallback_cache, redis_call_phone,
                            fallback_call_phone_cache>>
       \/ \E restaurant_id \in Tenants, category \in categories :
             /\ clear_cache(restaurant_id, category, TRUE)
             /\ mirror' = MirrorOp("clear", restaurant_id, <<>>, category, None)
    /\ UNCHANGED <<legacy_cache, bystander_vars>>

MirrorCall == MirrorCallWith(EndpointCategories)

\* the same call, made on the cache manager while Redis fails and on the
\* in-memory-only module
MirrorReplay ==
    /\ mirror # NoMirror
    /\ CASE mirror.op = "set" ->
              /\ set_cached_result(mirror.restaurant_id, mirror.query,
                                   mirror.results, mirror.category, FALSE)
              /\ legacy_set_cached_result(mirror.restaurant_id, mirror.query,
                                          mirror.results, mirror.category)
              /\ UNCHANGED <<redis_call_phone, fallback_call_phone_cache>>
         [] mirror.op = "get" ->
              UNCHANGED <<redis_cache, fallback_cache, legacy_cache,
                          redis_call_phone, fallback_call_phone_cache>>
         [] mirror.op = "clear" ->
              /\ clear_cache(mirror.restaurant_id, mirror.category, FALSE)
              /\ legacy_clear_cache(mirror.restaurant_id, mirror.category)
    /\ mirror' = NoMirror
    /\ UNCHANGED bystander_vars

\* a tick of the clock, between two calls
MirrorTick ==
    /\ mirror = NoMirror
    /\ redis_cache' = Aged(redis_cache)
    /\ fallback_cache' = Aged(fallback_cache)
    /\ legacy_cache' = Aged(legacy_cache)
    /\ UNCHANGED <<mirror, redis_call_phone, fallback_call_phone_cache,
                   bystander_vars>>

MirrorNext == MirrorCall \/ MirrorReplay \/ MirrorTick

MirrorSpec == Init /\ [][MirrorNext]_vars

\* the calls the handlers alone make
HandlerMirrorNext ==
    MirrorCallWith(HandlerCategories) \/ MirrorReplay \/ MirrorTick

HandlerMirrorSpec == Init /\ [][HandlerMirrorNext]_vars

(***************************************************************************)
(* Tenant resolver: extract_restaurant_id_with_fallback.                   *)
(***************************************************************************)
\* a truthy value that is no string (a JSON number, list or object)
NonString == <<"nonstring">>

\* truthiness of an optional string
PyTruthy(value) == value # None /\ value # <<>>

RECURSIVE LStrip(_)
LStrip(str) ==
    IF str # <<>> /\ Head(str) = " " THEN LStrip(Tail(str)) ELSE str

RECURSIVE RStrip(_)
RStrip(str) ==
    IF str # <<>> /\ str[Len(str)] = " "
    THEN RStrip(SubSeq(str, 1, Len(str) - 1))
    ELSE str

\* str.strip()
Strip(str) == RStrip(LStrip(str))

\* query_params: None, or a dict (empty when it has no key at all)
QueryParams(shape, restaurant_id) ==
    [shape |-> shape, restaurant_id |-> restaurant_id]
\* vapi_request: None, or a request whose metadata is a dict or not
VapiRequest(shape, metadata, restaurant_id) ==
    [shape |-> shape, metadata |-> metadata, restaurant_id |-> restaurant_id]

\* VapiRequest.extract_restaurant_id
extract_restaurant_id(vapi_request) ==
    IF vapi_request.metadata = "dict" THEN vapi_request.restaurant_id
    ELSE None

\* _extract_phone_number_from_message
extract_phone_number_from_message(message_obj) ==
    IF message_obj.shape # "object" THEN NoPhone
    ELSE IF Truthy(message_obj.phoneNumber)
    THEN normalize_phone_number(message_obj.phoneNumber)
    ELSE IF message_obj.call.shape = "object"
            /\ Truthy(message_obj.call.phoneNumber)
    THEN normalize_phone_number(message_obj.call.phoneNumber)
    ELSE NoPhone

\* what the function returned (or that it raised), from which source, and
\* how many datastore lookups it made
Extracted(raised, source, value, tenant, lookups) ==
    [raised |-> raised, source |-> source, value |-> value,
     tenant |-> tenant, lookups |-> lookups]

\* return value.strip(): an AttributeError when the value is no string
Stripped(source, value) ==
    IF value = NonString THEN Extracted(TRUE, source, None, NoTenant, 0)
    ELSE Extracted(FALSE, source, Strip(value), NoTenant, 0)

\* the phone-number fallback, inside its try block
PhoneFallback(message_obj, db_ok) ==
    LET phone_number == extract_phone_number_from_message(message_obj)
    IN  IF message_obj.shape \in {"missing", "null"}
        THEN Extracted(FALSE, "none", None, NoTenant, 0)
        ELSE IF phone_number # NoPhone
        THEN Extracted(FALSE, "phone", None,
                       get_restaurant_id_from_phone(phone_number, db_ok), 1)
        ELSE Extracted(FALSE, "none", None, NoTenant, 0)

\* variant: the query parameter is asked before the header
QueryBeforeHeader(x_restaurant_id, query_params, vapi_request, message_obj, db_ok) ==
    IF query_params.shape = "dict" /\ PyTruthy(query_params.restaurant_id)
    THEN Stripped("query", query_params.restaurant_id)
    ELSE IF PyTruthy(x_restaurant_id)
    THEN Stripped("header", x_restaurant_id)
    ELSE IF vapi_request.shape = "object"
            /\ PyTruthy(extract_restaurant_id(vapi_request))
    THEN Stripped("metadata", extract_restaurant_id(vapi_request))
    ELSE PhoneFallback(message_obj, db_ok)

extract_restaurant_id_with_fallback(x_restaurant_id, query_params, vapi_request, message_obj, db_ok) ==
    IF PyTruthy(x_restaurant_id)
    THEN Stripped("header", x_restaurant_id)
    ELSE IF query_params.shape = "dict" /\ PyTruthy(query_params.restaurant_id)
    THEN Stripped("query", query_params.restaurant_id)
    ELSE IF vapi_request.shape = "object"
            /\ PyTruthy(extract_restaurant_id(vapi_request))
    THEN Stripped("metadata", extract_restaurant_id(vapi_request))
    ELSE PhoneFallback(message_obj, db_ok)

\* the values a source carries: absent, empty, blank, an id, a padded id
SourceValues ==
    {None, <<>>, <<" ">>, <<"r", "1">>, <<"r", "2">>, <<" ", "r", "3", " ">>}

HeaderValues == SourceValues
QueryValues ==
    {QueryParams("none", None), QueryParams("empty", None)}
    \cup {QueryParams("dict", v) : v \in SourceValues}
RequestValues ==
    {VapiRequest("none", "none", None), VapiRequest("object", "none", None),
     VapiRequest("object", "nondict", None),
     VapiRequest("object", "dict", NonString)}
    \cup {VapiRequest("object", "dict", v) : v \in SourceValues}
MessageValues ==
    {NoMessageObj("null"), NoMessageObj("nonobject"),
     MessageObj("", StrPhone(F1), NoCallObj("missing")),
     MessageObj("", MissingPhone, CallObj("c1", MissingStatus, DictPhone(P2))),
     MessageObj("", MissingPhone, CallObj("c1", MissingStatus, StrPhone(U0))),
     MessageObj("", MissingPhone, NoCallObj("nonobject"))}

\* a request arrives and its tenant is extracted
Extract ==
    /\ extracted = NoExtracted
    /\ \E x \in HeaderValues, q \in QueryValues, v \in RequestValues,
          m \in MessageValues, db_ok \in BOOLEAN :
          extracted' =
              [x_restaurant_id |-> x, query_params |-> q, vapi_request |-> v,
               message_obj |-> m, db_ok |-> db_ok,
               out |-> extract_restaurant_id_with_fallback(x, q, v, m, db_ok)]
    /\ UNCHANGED <<scheduler_vars, cache_vars, redis_call_phone,
                   fallback_call_phone_cache, legacy_cache, mirror, db,
                   search, crud>>

\* the request ends
ExtractDone ==
    /\ extracted # NoExtracted
    /\ extracted' = NoExtracted
    /\ UNCHANGED <<scheduler_vars, cache_vars, redis_call_phone,
                   fallback_call_phone_cache, legacy_cache, mirror, db,
                   search, crud>>

ExtractNext == Extract \/ ExtractDone

ExtractSpec == Init /\ [][ExtractNext]_vars

(***************************************************************************)
(* Vocabulary of the properties.                                           *)
(***************************************************************************)
ThreadIds == 1..Len(threads)

\* the threads of a call id that have not ended
Live(c) == {t \in ThreadIds : threads[t].id = c /\ threads[t].pc # "done"}

RECURSIVE FetchesUpTo(_, _)
FetchesUpTo(c, n) ==
    IF n = 0 THEN 0
    ELSE (IF threads[n].id = c THEN threads[n].fetches ELSE 0)
         + FetchesUpTo(c, n - 1)

\* fetch_and_store_call_from_vapi invocations for a call id so far
Invoked(c) == FetchesUpTo(c, Len(threads))

RowsFor(c) == {i \in 1..Len(call_history) : call_history[i].vapi_call_id = c}

RowsBy(t) == {i \in 1..Len(call_history) : call_history[i].thread = t}

\* the tenant the phone mapping gives a phone number, written out
TenantOf(phone) ==
    CASE phone \in {F1, P1} -> "r1"
      [] phone = P2 -> "r2"
      [] OTHER -> NoTenant

\* the last request passed the secret check and carried a message object
LastMessage(type) ==
    /\ last.hdr = "secret"
    /\ last.body.shape = "object"
    /\ last.body.message.shape = "object"
    /\ last.body.message.type = type

C2_OneLiveTask ==
    \A c \in CallIds :
        /\ Cardinality(Live(c)) <= 1
        /\ Live(c) # {} => c \in scheduled_fetches

\* a duplicate trigger arrived while the thread of the id was alive, and the
\* thread is in the middle of its fetch
C2_Witness ==
    \E t \in ThreadIds :
        /\ threads[t].pc = "fetching" /\ threads[t].dups
        /\ Live(threads[t].id) = {t}

(***************************************************************************)
(* C3. No call id ever has two rows in call_history.                       *)
(***************************************************************************)
C3_NoDuplicateRecords ==
    \A c \in CallIds : Cardinality(RowsFor(c)) <= 1

(***************************************************************************)
(* C4. Terminal-status gate: a fetcher call that read a vendor record      *)
(* whose status is none of ended, completed, failed returns None, has made *)
(* no phone or tenant resolution and has inserted no row; no thread gets   *)
(* past the gate with such a status.                                       *)
(***************************************************************************)
C4_TerminalStatusGate ==
    \A t \in ThreadIds :
        /\ threads[t].pc = "fetching"
               => threads[t].status \in {"ended", "completed", "failed"}
        /\ ( /\ threads[t].pc = "finally"
             /\ threads[t].outcome \notin {"no_api_key", "api_error", "raises",
                                         "raised"}
             /\ threads[t].status \notin {"ended", "completed", "failed"} )
               => /\ threads[t].ret = 0
                  /\ threads[t].outcome = "not_ended"
                  /\ threads[t].resolutions = 0
                  /\ RowsBy(t) = {}

\* a fetch that found the call still in progress has returned
C4_Witness ==
    \E t \in ThreadIds :
        /\ threads[t].pc = "finally"
        /\ threads[t].status = "in-progress"
        /\ threads[t].outcome = "not_ended"

(***************************************************************************)
(* C5. Scenario: a thread started for a call id finds the id pending; when *)
(* the vendor reports a terminal status and the phone number of the call   *)
(* resolves to a tenant, its fetch has inserted exactly one row, under     *)
(* that tenant; and the thread ends with the id out of the pending set.    *)
(***************************************************************************)
C5_Persisted(t) ==
    ( /\ threads[t].pc = "finally"
      /\ threads[t].status \in {"ended", "completed", "failed"}
      /\ threads[t].outcome \notin {"no_phone", "no_tenant", "store_error"} )
        => /\ Cardinality(RowsBy(t)) = 1
           /\ threads[t].ret \in RowsBy(t)
           /\ call_history[threads[t].ret].vapi_call_id = threads[t].id
           /\ call_history[threads[t].ret].restaurant_id # NoTenant
           /\ call_history[threads[t].ret].restaurant_id
                  = TenantOf(call_history[threads[t].ret].phone)

C6_PermanentlyUnreconciled ==
    [][\A c \in CallIds :
          (\E t \in failed : threads[t].id = c) => RowsFor(c)' = RowsFor(c)]_vars

(***************************************************************************)
(* C6, amended. No retry: a thread calls the fetcher once; a thread whose  *)
(* fetch failed goes on to its finally block and ends, without a second    *)
(* fetch and without a row of its own, so a row inserted for the id later  *)
(* comes from a thread that a later trigger started.                       *)
(***************************************************************************)
C6_NoRetry ==
    \A t \in ThreadIds :
        /\ threads[t].fetches <= 1
        /\ threads[t].pc = "done" => threads[t].fetches = 1
        /\ t \in failed => /\ threads[t].pc \in {"finally", "done"}
                           /\ RowsBy(t) = {}
        /\ \A i \in RowsFor(threads[t].id) : call_history[i].thread \notin failed

\* the fetch of a thread failed and the thread ended; a later thread of the
\* same id has inserted a row
C6_Witness ==
    \E t \in failed :
        /\ threads[t].pc = "done"
        /\ \E i \in RowsFor(threads[t].id) : call_history[i].thread > t

(***************************************************************************)
(* C7. Whatever the body of a request that passed the secret check, the    *)
(* endpoint answers with a JSON object, and with {} when an exception was  *)
(* caught.                                                                 *)
(***************************************************************************)
C7_NeverPropagates ==
    last.hdr = "secret"
        => /\ last.handled.resp.kind \in {"empty", "metadata", "ack"}
           /\ last.handled.raised => last.handled.resp = EmptyResp

\* an assistant-request with a phone number and a null call was answered {}
C7_Witness ==
    /\ LastMessage("assistant-request")
    /\ last.body.message.call.shape = "null"
    /\ last.body.message.phoneNumber.shape = "str"
    /\ last.handled.raised
    /\ last.handled.resp = EmptyResp

(***************************************************************************)
(* C8. A message whose type is none of the three routed types (or a body   *)
(* without a message) is answered {} and changes nothing: no handler call, *)
(* no schedule, no association stored, no row.                             *)
(***************************************************************************)
C8_UnknownTypeIgnored ==
    ( /\ last.hdr = "secret"
      /\ last.body.shape = "object"
      /\ last.body.message.shape \in {"object", "missing"}
      /\ last.body.message.type \notin
             {"assistant-request", "status-update", "end-of-call-report"} )
        => /\ last.handled.resp = EmptyResp
           /\ ~last.handled.raised
           /\ last.handled.sched = NoId
           /\ last.handled.store_id = NoId
           /\ ~last.changed

\* a transcript message naming a ringing call was acknowledged
C8_Witness ==
    /\ LastMessage("transcript")
    /\ last.body.message.call.id = "c1"
    /\ last.handled.resp = EmptyResp

(***************************************************************************)
(* C9. Every assistant-request whose phone number (message.phoneNumber,    *)
(* else message.call.phoneNumber) is mapped to a tenant is answered with   *)
(* that tenant id, unless the lookup failed; without a mapping the answer  *)
(* is {}.                                                                  *)
(***************************************************************************)
C9_RequestPhone ==
    LET m == last.body.message
    IN  IF m.phoneNumber.shape # "missing" THEN m.phoneNumber.number
        ELSE IF m.call.shape = "object" THEN m.call.phoneNumber.number
        ELSE NoPhone

C9_TenantInResponse ==
    (LastMessage("assistant-request") /\ last.handled.lookup # "failed")
        => IF TenantOf(C9_RequestPhone) # NoTenant
           THEN last.handled.resp.restaurant_id = TenantOf(C9_RequestPhone)
           ELSE last.handled.resp = EmptyResp

(***************************************************************************)
(* C10. A status-update asks for a schedule exactly when its call object   *)
(* is present, its status is "ringing" in any letter case and it has a     *)
(* call id; otherwise nothing changes, and a status-update with another    *)
(* status is acknowledged with success.                                    *)
(***************************************************************************)
C10_Ringing ==
    LET call == last.body.message.call
    IN  /\ call.shape = "object"
        /\ call.status.shape = "str"
        /\ call.status.s \in {"ringing", "Ringing"}
        /\ call.id # NoId

C10_SchedulesOnRinging ==
    LastMessage("status-update")
        => /\ last.handled.sched # NoId <=> C10_Ringing
           /\ C10_Ringing
                  => /\ last.handled.sched = last.body.message.call.id
                     /\ last.handled.resp = AckResp("true", "Scheduled API fetch")
           /\ ~C10_Ringing => ~last.changed
           /\ ( /\ ~C10_Ringing
                /\ last.body.message.call.shape = "object"
                /\ last.body.message.call.status.shape \in {"str", "missing"} )
                  => /\ last.handled.resp.kind = "ack"
                     /\ last.handled.resp.success = "true"

\* a status-update "Ringing" for c1 started a thread
C10_Witness ==
    /\ LastMessage("status-update")
    /\ last.body.message.call.status.s = "Ringing"
    /\ last.handled.sched = "c1"
    /\ last.accepted
    /\ "c1" \in scheduled_fetches

(***************************************************************************)
(* C11. An end-of-call-report whose call object carries a call id asks for *)
(* a schedule for that id and for nothing else: whatever the report        *)
(* carries, the handler stores no association from it, and the step of the *)
(* endpoint inserts no row.                                                *)
(***************************************************************************)
C11_ReportOnlySchedules ==
    /\ []( ( /\ LastMessage("end-of-call-report")
             /\ last.body.message.call.shape = "object"
             /\ last.body.message.call.id # NoId )
              => /\ last.handled.sched = last.body.message.call.id
                 /\ last.handled.resp = AckResp("true", "Scheduled API fetch")
                 /\ last.handled.store_id = NoId
                 /\ last.handled.store_phone = NoPhone )
    /\ [][last' # last => call_history' = call_history]_vars

\* a report for c1 that carries phone numbers started a thread, and no row
\* exists
C11_Witness ==
    /\ LastMessage("end-of-call-report")
    /\ last.body.message.phoneNumber.shape = "str"
    /\ last.handled.sched = "c1"
    /\ last.accepted
    /\ call_history = <<>>

(***************************************************************************)
(* C12. A status-update or end-of-call-report that lacks its call object,  *)
(* or whose call object lacks the call id it needs to schedule (a ringing  *)
(* status-update, any end-of-call-report), is answered with success =      *)
(* false and schedules nothing.                                            *)
(***************************************************************************)
C12_SchedulingRequest ==
    \/ LastMessage("end-of-call-report")
    \/ /\ LastMessage("status-update")
       /\ \/ last.body.message.call.shape \in {"missing", "null"}
          \/ /\ last.body.message.call.shape = "object"
             /\ last.body.message.call.status.shape = "str"
             /\ last.body.message.call.status.s \in {"ringing", "Ringing"}

C12_MissingFieldFails ==
    ( /\ C12_SchedulingRequest
      /\ \/ last.body.message.call.shape \in {"missing", "null"}
         \/ /\ last.body.message.call.shape = "object"
            /\ last.body.message.call.id = NoId )
        => /\ last.handled.resp.kind = "ack"
           /\ last.handled.resp.success = "false"
           /\ last.handled.sched = NoId

(***************************************************************************)
(* C13. A request whose secret header is missing or wrong is rejected with *)
(* 401 before the body is read; nothing is scheduled, no association is    *)
(* stored and the shared state is unchanged.                               *)
(***************************************************************************)
C13_SecretBeforeParsing ==
    last.hdr \in {"missing", "wrong"}
        => /\ last.handled.resp = Http401
           /\ last.body = NoJsonBody("unread")
           /\ last.handled.sched = NoId
           /\ last.handled.store_id = NoId
           /\ ~last.accepted
           /\ ~last.changed

\* a request with a wrong secret was rejected
C13_Witness ==
    /\ last.hdr = "wrong"
    /\ last.handled.resp = Http401
    /\ threads = <<>>

(***************************************************************************)
(* C14. The fetcher takes the phone number of a call from the association  *)
(* get_call_phone returns, else from the phoneNumber field of the fetched  *)
(* record, else from the secondary lookup by phoneNumberId: a row it       *)
(* inserts carries that number, and it inserts one whenever that number    *)
(* has a tenant and the datastore works; when all three give nothing it    *)
(* returns None and inserts nothing.                                       *)
(***************************************************************************)
C14_RecordNumber(rec_phone) ==
    IF rec_phone.shape = "missing" THEN NoPhone ELSE rec_phone.number

C14_Preferred ==
    IF fetched.cached # NoPhone THEN fetched.cached
    ELSE IF C14_RecordNumber(fetched.rec_phone) # NoPhone
    THEN C14_RecordNumber(fetched.rec_phone)
    ELSE fetched.sec_phone

C14_PhonePreference ==
    fetched.thread # 0
        => /\ C14_Preferred = NoPhone => fetched.ret = 0 /\ fetched.rows = 0
           /\ fetched.rows = 1
                  => /\ call_history[fetched.ret].phone = C14_Preferred
                     /\ call_history[fetched.ret].thread = fetched.thread
           /\ ( /\ TenantOf(C14_Preferred) # NoTenant
                /\ fetched.db_ok /\ fetched.insert_ok ) => fetched.rows = 1

\* no association, no number in the record: the row carries the number of
\* the secondary lookup
C14_Witness ==
    /\ fetched.thread # 0
    /\ fetched.cached = NoPhone
    /\ C14_RecordNumber(fetched.rec_phone) = NoPhone
    /\ fetched.sec_phone = P2
    /\ fetched.rows = 1
    /\ call_history[fetched.ret].phone = P2

(***************************************************************************)
(* C15. When the phone number resolved for a call has no tenant mapping    *)
(* the fetcher returns None and inserts nothing; every row of call_history *)
(* is under the tenant the phone mapping gives its phone number.           *)
(***************************************************************************)
C15_OrphanNotStored ==
    /\ ( /\ fetched.thread # 0
         /\ C14_Preferred # NoPhone
         /\ TenantOf(C14_Preferred) = NoTenant )
           => fetched.ret = 0 /\ fetched.rows = 0
    /\ \A i \in 1..Len(call_history) :
          /\ call_history[i].restaurant_id # NoTenant
          /\ call_history[i].restaurant_id = TenantOf(call_history[i].phone)

\* the number of the secondary lookup has no mapping: nothing was stored
C15_Witness ==
    /\ fetched.thread # 0
    /\ C14_Preferred = U0
    /\ fetched.db_ok /\ fetched.insert_ok
    /\ fetched.ret = 0
    /\ call_history = <<>>

(***************************************************************************)
(* C16. The fetcher is the only writer of call_history: every row was      *)
(* appended by the step of a fetch thread past the gate, whose fetch read  *)
(* a terminal status; no other step changes call_history, and a step that  *)
(* changes it appends one row and leaves the rows before it as they were.  *)
(***************************************************************************)
C16_FetcherOnlyWriter ==
    /\ [](\A i \in 1..Len(call_history) :
            /\ call_history[i].thread \in ThreadIds
            /\ threads[call_history[i].thread].id = call_history[i].vapi_call_id
            /\ threads[call_history[i].thread].fetches = 1
            /\ call_history[i].outcome \in {"ended", "completed", "failed"})
    /\ [][call_history' # call_history
            => /\ Len(call_history') = Len(call_history) + 1
               /\ SubSeq(call_history', 1, Len(call_history)) = call_history
               /\ \E t \in ThreadIds :
                     /\ threads[t].pc = "fetching"
                     /\ threads[t].status \in {"ended", "completed", "failed"}
                     /\ threads'[t].pc = "finally"
                     /\ call_history'[Len(call_history')].thread = t]_vars

\* two rows, both appended by fetch threads, after two end-of-call-reports
C16_Witness ==
    /\ Len(call_history) = 2
    /\ call_history[1].thread # call_history[2].thread
    /\ \A t \in ThreadIds : threads[t].pc = "done"

(***************************************************************************)
(* Vocabulary of the cache properties.                                     *)
(***************************************************************************)
\* what get_cached_result returns for a key when Redis answers (m) or not
Got(k, m) == get_cached_result(k[1], k[2], k[3], m)

\* the step just taken is a call of the cache manager of this kind
CacheStep(op) == cache_last'.op = op /\ cache_last'.elapsed = 0

LastKey == <<cache_last.restaurant_id, cache_last.query, cache_last.category>>

(***************************************************************************)
(* C17. Cache key exactness: queries of one tenant and category that       *)
(* differ, if only in letter case or surrounding white space, have         *)
(* different keys, and a set under one leaves what get returns for the     *)
(* other unchanged, whichever store serves the calls.                      *)
(***************************************************************************)
C17_KeyExactness ==
    /\ [](\A k1 \in CacheKeys, k2 \in CacheKeys :
             k1 # k2 => get_cache_key(k1[1], k1[2], k1[3])
                            # get_cache_key(k2[1], k2[2], k2[3]))
    /\ [][CacheStep("set")
            => \A k \in CacheKeys, m \in BOOLEAN :
                  ( /\ k[1] = cache_last'.restaurant_id
                    /\ k[3] = cache_last'.category
                    /\ k[2] # cache_last'.query )
                      => Got(k, m)' = Got(k, m)]_vars

\* "Hi" has just been set next to "hi" and each returns its own documents
C17_Witness ==
    /\ cache_last.op = "set" /\ cache_last.elapsed = 0
    /\ LastKey = <<T1, QHi, Menu>>
    /\ Got(<<T1, QHi, Menu>>, cache_last.redis_ok) = R1
    /\ Got(<<T1, QLower, Menu>>, cache_last.redis_ok) = EmptyResults

C18_Untouched(k, m) ==
    \/ CacheStep("get")
    \/ CacheStep("store_call_phone")
    \/ CacheStep("set") /\ (k # LastKey' \/ m # cache_last'.redis_ok)
    \/ /\ CacheStep("clear")
       /\ (k[1] # cache_last'.restaurant_id \/ m # cache_last'.redis_ok)

C19_InvalidationScoping ==
    [][CacheStep("clear")
         => /\ cache_last'.category = Menu
                => \A k \in CacheKeys, m \in BOOLEAN :
                      (k[1] = cache_last'.restaurant_id /\ k[3] = Hours)
                          => Got(k, m)' = Got(k, m)
            /\ cache_last'.category = NoCategory
                => \A k \in CacheKeys, m \in BOOLEAN :
                      k[1] = cache_last'.restaurant_id => Got(k, m)' = None]_vars

(***************************************************************************)
(* C20. No clear_cache call, of any tenant and category, served by Redis   *)
(* or by the in-memory cache, removes or changes a call id -> phone number *)
(* association in either store.                                            *)
(***************************************************************************)
C20_AssociationsKeptByClear ==
    [][CacheStep("clear")
         => /\ redis_call_phone' = redis_call_phone
            /\ fallback_call_phone_cache' = fallback_call_phone_cache]_vars

\* a tenant-wide clear served by Redis has emptied the search results and
\* the associations of c1 are in both stores
C20_Witness ==
    /\ cache_last.op = "clear"
    /\ cache_last.category = NoCategory
    /\ cache_last.redis_ok
    /\ redis_call_phone["c1"] = F1
    /\ fallback_call_phone_cache["c1"] = F1
    /\ fallback_cache # {}
    /\ redis_cache = {}

(***************************************************************************)
(* C26. The removal from the pending set is on a finally path: a thread    *)
(* whose call of the fetcher raised finds its id pending until its finally *)
(* block runs, that block removes the id, and the next trigger for the id  *)
(* is accepted: it starts a new thread.                                    *)
(***************************************************************************)
C26_Raised(t) == threads[t].pc = "finally" /\ threads[t].outcome = "raises"

C26_FinallyAfterRaise ==
    /\ [](\A t \in ThreadIds :
             C26_Raised(t) => threads[t].id \in scheduled_fetches)
    /\ [][\A t \in ThreadIds :
             (C26_Raised(t) /\ threads'[t].pc = "done")
                 => threads[t].id \notin scheduled_fetches']_vars
    /\ [][\A c \in CallIds :
             ( /\ c \notin scheduled_fetches
               /\ \E t \in ThreadIds :
                     /\ threads[t].id = c
                     /\ threads[t].pc = "done"
                     /\ threads[t].outcome = "raises"
               /\ c \in scheduled_fetches' )
                 => /\ Len(threads') = Len(threads) + 1
                    /\ threads'[Len(threads')].id = c
                    /\ threads'[Len(threads')].pc = "sleep"]_vars

\* the fetch of the first thread raised, the thread has ended, and a later
\* trigger for the same id has started a second thread
C26_Witness ==
    /\ Len(threads) = 2
    /\ threads[1].pc = "done"
    /\ threads[1].outcome = "raises"
    /\ threads[2].id = threads[1].id
    /\ threads[2].pc = "sleep"
    /\ threads[2].id \in scheduled_fetches

(***************************************************************************)
(* C27. When an end-of-call-report that carries a call id is acknowledged  *)
(* with success, a thread of that id is pending whose call of the fetcher  *)
(* has not started yet: the fetch that follows starts after the report.    *)
(***************************************************************************)
C27_ReportThenFetch ==
    [][( /\ last' # last
         /\ last'.body.shape = "object"
         /\ last'.body.message.type = "end-of-call-report"
         /\ last'.handled.sched # NoId
         /\ last'.handled.resp.success = "true" )
          => \E t \in 1..Len(threads') :
                /\ threads'[t].id = last'.handled.sched
                /\ threads'[t].pc = "sleep"]_vars

(***************************************************************************)
(* C25. As claimed: the result of extract_restaurant_id_with_fallback is   *)
(* the value of the first non-empty source among header, query parameter   *)
(* and request metadata.                                                   *)
(***************************************************************************)
C25_Sources ==
    << extracted.x_restaurant_id,
       IF extracted.query_params.shape = "dict"
       THEN extracted.query_params.restaurant_id ELSE None,
       IF extracted.vapi_request.shape = "object"
          /\ extracted.vapi_request.metadata = "dict"
       THEN extracted.vapi_request.restaurant_id ELSE None >>

C25_SourceNames == <<"header", "query", "metadata">>

\* the first source that is neither absent nor the empty string; 0 if none
C25_First ==
    IF \E i \in 1..3 : PyTruthy(C25_Sources[i])
    THEN CHOOSE i \in 1..3 :
            /\ PyTruthy(C25_Sources[i])
            /\ \A j \in 1..(i - 1) : ~PyTruthy(C25_Sources[j])
    ELSE 0

C25_FirstNonEmptyValue ==
    C25_First # 0
        => /\ ~extracted.out.raised
           /\ extracted.out.value = C25_Sources[C25_First]

(***************************************************************************)
(* C25, amended. The result is the value of the first source that is       *)
(* neither absent nor the empty string, in the order header, query         *)
(* parameter, request metadata, with its leading and trailing white space  *)
(* removed (the empty string for a source of blanks only; an exception for *)
(* a metadata value that is no string); later sources are not consulted,   *)
(* and the datastore lookup by phone number is made only when the three    *)
(* are all absent or empty, its answer being the result.                   *)
(***************************************************************************)
C25_PriorityChain ==
    /\ C25_First # 0
        => /\ extracted.out.source = C25_SourceNames[C25_First]
           /\ extracted.out.lookups = 0
           /\ extracted.out.tenant = NoTenant
           /\ IF C25_Sources[C25_First] = NonString
              THEN extracted.out.raised
              ELSE /\ ~extracted.out.raised
                   /\ extracted.out.value = Strip(C25_Sources[C25_First])
    /\ C25_First = 0
        => /\ ~extracted.out.raised
           /\ extracted.out.source \in {"", "phone", "none"}
           /\ extracted.out.value = None
           /\ extracted.out.lookups = 1 <=> extracted.out.source = "phone"
           /\ extracted.out.source = "phone"
                => extracted.out.tenant =
                       get_restaurant_id_from_phone(
                           extract_phone_number_from_message(
                               extracted.message_obj),
                           extracted.db_ok)

\* a padded query parameter won over the metadata and the phone number of
\* the message, with no lookup made
C25_Witness ==
    /\ ~PyTruthy(extracted.x_restaurant_id)
    /\ extracted.query_params = QueryParams("dict", <<" ", "r", "3", " ">>)
    /\ extracted.vapi_request = VapiRequest("object", "dict", <<"r", "1">>)
    /\ extracted.message_obj.shape = "object"
    /\ extracted.out.value = <<"r", "3">>
    /\ extracted.out.lookups = 0

(***************************************************************************)
(* C21. Fallback transparency: after the same sequence of set, get and     *)
(* clear calls, the cache manager whose Redis fails on every operation     *)
(* returns for every key what the in-memory-only cache module returns.     *)
(***************************************************************************)
C21_LegacyGot(k) == legacy_get_cached_result(k[1], k[2], k[3])

C21_FallbackTransparency ==
    mirror.op \in {"", "get"}
        => \A k \in MirrorKeys : Got(k, FALSE) = C21_LegacyGot(k)

(***************************************************************************)
(* C22. Transparency of the backing store: after the same sequence of set, *)
(* get and clear calls, a get served by the healthy Redis returns what the *)
(* same get served by the in-memory cache returns.                         *)
(***************************************************************************)
C22_SameGetResults ==
    mirror.op = "get"
        => mirror.results =
               Got(<<mirror.restaurant_id, mirror.query, mirror.category>>,
                   FALSE)

(***************************************************************************)
(* C28. Invalidation across failure and recovery of Redis: when            *)
(* clear_cache(tenant, None) returns, whichever store served it, no key of *)
(* the tenant is retrievable, neither by a get that Redis serves nor by a  *)
(* get that falls back to the in-memory cache; so no later get returns a   *)
(* payload that was stored before the clear.                               *)
(***************************************************************************)
C28_ClearedEverywhere ==
    [][(CacheStep("clear") /\ cache_last'.category = NoCategory)
          => \A k \in CacheKeys :
                k[1] = cache_last'.restaurant_id
                    => /\ get_cached_result(k[1], k[2], k[3], TRUE)' = None
                       /\ get_cached_result(k[1], k[2], k[3], FALSE)' = None]_vars

(***************************************************************************)
(* C30. Tenant isolation of the cache: a set or a clear made for one       *)
(* tenant id changes no result of a get for another tenant id, on either   *)
(* store, and a set for one (tenant, category, query) triple changes no    *)
(* result of a get for another triple, whatever characters the strings     *)
(* hold.                                                                   *)
(***************************************************************************)
C30_TenantIsolation ==
    [][(CacheStep("set") \/ CacheStep("clear"))
          => \A k \in RequestKeys, m \in BOOLEAN :
                (\/ k[1] # cache_last'.restaurant_id
                 \/ CacheStep("set") /\ k # LastKey')
                    => Got(k, m)' = Got(k, m)]_vars

(***************************************************************************)
(* C23. Every handler that changes menu items, categories, modifiers,      *)
(* hours or zones and has written calls clear_cache for the tenant and the *)
(* category of the data, after the write and before it ends.               *)
(***************************************************************************)
C23_WriteThenClear ==
    (crud.pc = "ended" /\ crud.wrote)
        => crud.cleared = <<crud.restaurant_id, crud.data>>

(***************************************************************************)
(* C24. When a handler has written and has invalidated, no search result   *)
(* of the tenant that was read from the data before the write is           *)
(* retrievable, neither under the category of the data nor under "all".    *)
(***************************************************************************)
C24_Retrievable(category) ==
    get_cached_result(crud.restaurant_id, QLower, category, TRUE)

C24_NothingStaleAfterClear ==
    [][(crud.pc = "written" /\ crud'.pc = "ended" /\ crud'.wrote
            /\ crud'.cleared # <<>>)
          => \A category \in {crud.data, NoCategory} :
                (~Stale(crud.restaurant_id, C24_Retrievable(category)))']_vars

(***************************************************************************)
(* C29. A search concurrent with a handler that writes and invalidates the *)
(* same tenant and category leaves no stale result: once both have ended,  *)
(* what a get returns for the tenant and the category was read from the    *)
(* data after the write.                                                   *)
(***************************************************************************)
C29_NoStaleAfterRace ==
    (/\ search.pc = "idle"
     /\ crud.pc = "ended"
     /\ crud.wrote
     /\ crud.cleared = <<crud.restaurant_id, crud.data>>)
        => ~Stale(crud.restaurant_id,
                  get_cached_result(crud.restaurant_id, QLower, crud.data,
                                    TRUE))

====
